---- MODULE Spec2Model ----
(***************************************************************************)
(* Model of scripts/models/model_registry.py: the ModelRegistry class, its *)
(* JSON document on disk and the calls made on one or several ModelRegistry *)
(* objects that share that document; and of scripts/docker/health_check.py: *)
(* HealthChecker.run_health_check and the command line around it.           *)
(*                                                                          *)
(* Strings the code inspects character by character (names, versions, keys, *)
(* ISO timestamps) are sequences of one-character strings.  A Python dict   *)
(* is a sequence of entries [k, v] in insertion order.  Optional[...] is a  *)
(* sequence of length 0 (None) or 1.                                        *)
(***************************************************************************)
EXTENDS Integers, Sequences, FiniteSets, TLC

\* ------------------------------------------------------------------ bounds
MaxOps == 2        \* register_model / update_model_status calls, two objects
MaxOpsOne == 4     \* register_model / update_model_status calls, one object

\* ------------------------------------------------------------------ inputs
Insts == {1, 2}                               \* ModelRegistry objects on one registry_path
Names == {<<"a">>, <<"a", ":", "b">>}
Versions == {<<"1">>, <<"b", ":", "1">>}
\* the (name, version) pairs registered and updated
Models == {<<<<"a">>, <<"1">>>>, <<<<"a">>, <<"b", ":", "1">>>>,
           <<<<"a", ":", "b">>, <<"1">>>>}
LATEST == <<"l", "a", "t", "e", "s", "t">>
\* (metrics, metadata) of a register_model call: two different metrics dicts,
\* metadata omitted or {1: "x"}
InfoArgs == {[metrics |-> 1, metadata |-> "None"], [metrics |-> 2, metadata |-> "intkey"]}
\* half seconds that pass between two readings of datetime.now()
Elapsed == {0, 1}
PathArgs == {"m.pth"}
TypeArgs == {"classification"}
StatusArgs == {"archived", "bogus"}
ValidStatus == {"active", "deprecated", "archived"}

\* ------------------------------------------------------------ Python dicts
DictKeys(d) == {d[i].k : i \in DOMAIN d}

DictHas(d, key) == key \in DictKeys(d)

DictIndex(d, key) == CHOOSE i \in DOMAIN d : d[i].k = key

\* dict.get(key): None when the key is absent
DictGet(d, key) == IF DictHas(d, key) THEN <<d[DictIndex(d, key)].v>> ELSE <<>>

\* DictSet as dict.setdefault would do it: an existing key keeps its old value
DictSetDefault(d, key, value) ==
    IF DictHas(d, key) THEN d ELSE Append(d, [k |-> key, v |-> value])

\* d[key] = value: an existing key keeps its position, a new key is appended
DictSet(d, key, value) ==
    IF DictHas(d, key)
    THEN [d EXCEPT ![DictIndex(d, key)] = [k |-> key, v |-> value]]
    ELSE Append(d, [k |-> key, v |-> value])

\* ----------------------------------------------------------------- strings
Ord(c) == CASE c = "." -> 46 [] c = "0" -> 48 [] c = "1" -> 49 [] c = "2" -> 50
            [] c = "3" -> 51 [] c = "4" -> 52 [] c = "5" -> 53 [] c = "6" -> 54
            [] c = "7" -> 55 [] c = "8" -> 56 [] c = "9" -> 57 [] c = ":" -> 58
            [] OTHER -> 97

RECURSIVE StrLess(_, _)
\* s < t on Python str: lexicographic by code point, a proper prefix is smaller
StrLess(s, t) ==
    IF t = <<>> THEN FALSE
    ELSE IF s = <<>> THEN TRUE
    ELSE IF Ord(Head(s)) # Ord(Head(t)) THEN Ord(Head(s)) < Ord(Head(t))
    ELSE StrLess(Tail(s), Tail(t))

\* k.startswith(p)
StartsWith(k, p) == Len(k) >= Len(p) /\ SubSeq(k, 1, Len(p)) = p

Digit(n) == <<"0", "1", "2", "3", "4", "5", "6", "7", "8", "9">>[n + 1]

\* datetime.isoformat() of the clock reading t (in half seconds): the seconds,
\* and the fraction only when the microsecond field is not zero
IsoFormat(t) ==
    IF t % 2 = 0 THEN <<Digit(t \div 2)>> ELSE <<Digit(t \div 2), ".", "5">>

\* f"{name}:{version}"
ModelKey(name, version) == name \o <<":">> \o version

\* -------------------------------------------------------------------- JSON
\* json.dump then json.load of a metadata dict: an int key becomes a str key
JsonMetadata(m) == IF m = "intkey" THEN "strkey" ELSE m

JsonInfo(info) == [info EXCEPT !.metadata = JsonMetadata(@)]

\* the document json.dump(self.registry, f, indent=2, default=str) writes
JsonDump(d) == [i \in DOMAIN d |-> [k |-> d[i].k, v |-> JsonInfo(d[i].v)]]

\* ------------------------------------------------------------------- state
VARIABLES
    disk,        \* the file at registry_path: [exists, doc]
    constructed, \* constructed[i]: ModelRegistry object i exists
    registry,    \* registry[i]: self.registry of object i
    clock,       \* the wall clock, in half seconds, at its latest reading
    nops,        \* number of mutating calls made so far
    returned,    \* keys of the register_model calls that have returned
    last,        \* the most recent call: its arguments, what it saw and returned
    torn,        \* what the file holds of its document: "whole", "empty", "prefix"
    saver,       \* the register_model call that is between its steps, if any
    h_pc,        \* health_check.py: where the script is
    service_type, \* sys.argv[1]
    attempt,     \* the loop variable of run_health_check
    probes,      \* the outcomes of the calls of self.checks[service_type]()
    sleeps,      \* number of time.sleep(retry_delay) calls
    stdout,      \* the lines printed
    h_ret,       \* how run_health_check ended
    exit_code    \* the exit status of the script, -1 while it runs

\* the variables of the registry
rvars == <<disk, constructed, registry, clock, nops, returned, last>>
\* the variables of a save in steps
svars == <<torn, saver>>
\* the variables of the health check script
hvars == <<h_pc, service_type, attempt, probes, sleeps, stdout, h_ret, exit_code>>

vars == <<rvars, svars, hvars>>

Idle == [pc |-> "idle", inst |-> 0, key |-> <<>>, before |-> <<>>]

NoCall == [op |-> "none", inst |-> 0, name |-> <<>>, version |-> <<>>,
           metrics |-> 0, metadata |-> "None", model_path |-> "", model_type |-> "",
           status |-> "", now |-> 0, prev |-> <<>>, ret |-> <<>>, raised |-> "none",
           listing |-> <<>>, present |-> FALSE, content |-> ""]

\* LoadRegistry that never finds the file
LoadRegistryEmpty(d) == <<>>

\* _load_registry: the mapping it returns
LoadRegistry(d) == IF d.exists THEN d.doc ELSE <<>>

\* LoadRaises without the exists() test: open() of a missing file raises
LoadRaisesNoExistsTest(d, t) ==
    IF ~d.exists THEN "FileNotFoundError"
    ELSE IF t # "whole" THEN "JSONDecodeError" ELSE "none"

\* _load_registry: what it raises; json.load of a file that does not hold a
\* whole document raises JSONDecodeError
LoadRaises(d, t) == IF d.exists /\ t # "whole" THEN "JSONDecodeError" ELSE "none"

\* the model_info dict register_model builds
ModelInfo(name, version, model_path, model_type, metrics, metadata, now) ==
    [name |-> name, version |-> version, model_path |-> model_path,
     model_type |-> model_type, metrics |-> metrics,
     metadata |-> IF metadata = "None" THEN "empty" ELSE metadata,
     registered_at |-> IsoFormat(now), status |-> "active"]

Init ==
    /\ disk = [exists |-> FALSE, doc |-> <<>>]
    /\ constructed = [i \in Insts |-> FALSE]
    /\ registry = [i \in Insts |-> <<>>]
    /\ clock = 0
    /\ nops = 0
    /\ returned = {}
    /\ last = NoCall
    /\ torn = "whole"
    /\ saver = Idle
    /\ h_pc = "start"
    /\ service_type = ""
    /\ attempt = 0
    /\ probes = <<>>
    /\ sleeps = 0
    /\ stdout = <<>>
    /\ h_ret = "none"
    /\ exit_code = -1

\* ModelRegistry.__init__
Construct(i) ==
    /\ ~constructed[i]
    /\ IF LoadRaises(disk, torn) = "none"
       THEN /\ constructed' = [constructed EXCEPT ![i] = TRUE]
            /\ registry' = [registry EXCEPT ![i] = LoadRegistry(disk)]
            /\ last' = [NoCall EXCEPT !.op = "__init__", !.inst = i]
       ELSE /\ last' = [NoCall EXCEPT !.op = "__init__", !.inst = i,
                          !.raised = LoadRaises(disk, torn)]
            /\ UNCHANGED <<constructed, registry>>
    /\ UNCHANGED <<disk, clock, nops, returned>>

\* ModelRegistry.register_model
RegisterModel(i, name, version, model_path, model_type, metrics, metadata, dt) ==
    /\ constructed[i]
    /\ clock' = clock + dt
    /\ LET info == ModelInfo(name, version, model_path, model_type, metrics,
                             metadata, clock')
           model_key == ModelKey(name, version)
           reg == DictSet(registry[i], model_key, info)
       IN /\ registry' = [registry EXCEPT ![i] = reg]
          /\ disk' = [exists |-> TRUE, doc |-> JsonDump(reg)]
          /\ last' = [NoCall EXCEPT !.op = "register_model", !.inst = i,
                        !.name = name, !.version = version, !.metrics = metrics,
                        !.metadata = metadata, !.model_path = model_path,
                        !.model_type = model_type, !.now = clock',
                        !.prev = DictGet(registry[i], model_key)]
    /\ nops' = nops + 1
    /\ returned' = returned \cup {ModelKey(name, version)}
    /\ UNCHANGED constructed

RECURSIVE PyMax(_, _, _)
\* max(ks, key=lambda k: d[k]['registered_at']) continued from the candidate
\* best: a later key wins only when its registered_at is strictly greater
PyMax(d, ks, best) ==
    IF ks = <<>> THEN best
    ELSE LET k == Head(ks)
             bt == d[DictIndex(d, best)].v.registered_at
             kt == d[DictIndex(d, k)].v.registered_at
         IN PyMax(d, Tail(ks), IF StrLess(bt, kt) THEN k ELSE best)

\* [k for k in self.registry.keys() if k.startswith(f"{name}:")]
ModelVersions(d, name) ==
    LET Matches(e) == StartsWith(e.k, name \o <<":">>)
        sel == SelectSeq(d, Matches)
    IN [i \in DOMAIN sel |-> sel[i].k]

\* ModelRegistry.get_model_info on the mapping d
GetModelInfo(d, name, version) ==
    IF version = LATEST
    THEN LET model_versions == ModelVersions(d, name)
         IN IF model_versions = <<>> THEN <<>>
            ELSE LET latest_key == PyMax(d, Tail(model_versions), Head(model_versions))
                 IN <<d[DictIndex(d, latest_key)].v>>
    ELSE DictGet(d, ModelKey(name, version))

\* SetStatus without the membership test: an unknown key gets a record
SetStatusUpsert(d, model_key, status) ==
    IF DictHas(d, model_key)
    THEN [d EXCEPT ![DictIndex(d, model_key)].v.status = status]
    ELSE Append(d, [k |-> model_key,
                    v |-> [name |-> <<>>, version |-> <<>>, model_path |-> "",
                           model_type |-> "", metrics |-> 0, metadata |-> "empty",
                           registered_at |-> <<>>, status |-> status]])

\* SetStatus that marks every record once the key is known
SetStatusAll(d, model_key, status) ==
    IF DictHas(d, model_key)
    THEN [j \in DOMAIN d |-> [d[j] EXCEPT !.v.status = status]]
    ELSE d

\* the body of update_model_status on the mapping d
SetStatus(d, model_key, status) ==
    IF DictHas(d, model_key)
    THEN [d EXCEPT ![DictIndex(d, model_key)].v.status = status]
    ELSE d

\* ModelRegistry.get_model_info
GetInfoCall(i, name, version) ==
    /\ constructed[i]
    /\ last' = [NoCall EXCEPT !.op = "get_model_info", !.inst = i, !.name = name,
                  !.version = version,
                  !.ret = GetModelInfo(registry[i], name, version)]
    /\ UNCHANGED <<disk, constructed, registry, clock, nops, returned>>

\* ModelRegistry.list_models
ListModels(i) ==
    /\ constructed[i]
    /\ last' = [NoCall EXCEPT !.op = "list_models", !.inst = i,
                  !.listing = registry[i]]
    /\ UNCHANGED <<disk, constructed, registry, clock, nops, returned>>

\* ModelRegistry.update_model_status
UpdateModelStatus(i, name, version, status) ==
    /\ constructed[i]
    /\ LET model_key == ModelKey(name, version)
           reg == SetStatus(registry[i], model_key, status)
       IN /\ registry' = [registry EXCEPT ![i] = reg]
          /\ disk' = IF DictHas(registry[i], model_key)
                     THEN [exists |-> TRUE, doc |-> JsonDump(reg)]
                     ELSE disk
          /\ last' = [NoCall EXCEPT !.op = "update_model_status", !.inst = i,
                        !.name = name, !.version = version, !.status = status,
                        !.prev = DictGet(registry[i], model_key)]
    /\ nops' = nops + 1
    /\ UNCHANGED <<constructed, clock, returned>>

\* the calls made on the objects in I, at most bound of them mutating
NextOn(I, bound) ==
    \/ /\ \E i \in I : Construct(i)
       /\ UNCHANGED <<svars, hvars>>
    \/ /\ nops < bound
       /\ \E i \in I, nv \in Models, p \in PathArgs, t \in TypeArgs, a \in InfoArgs,
             dt \in Elapsed :
             RegisterModel(i, nv[1], nv[2], p, t, a.metrics, a.metadata, dt)
       /\ UNCHANGED <<svars, hvars>>
    \/ /\ \E i \in I, n \in Names, v \in Versions \cup {LATEST} : GetInfoCall(i, n, v)
       /\ UNCHANGED <<svars, hvars>>
    \/ /\ \E i \in I : ListModels(i)
       /\ UNCHANGED <<svars, hvars>>
    \/ /\ nops < bound
       /\ \E i \in I, nv \in Models, s \in StatusArgs :
             UpdateModelStatus(i, nv[1], nv[2], s)
       /\ UNCHANGED <<svars, hvars>>

\* two ModelRegistry objects on the same registry_path
Next == NextOn(Insts, MaxOps)

Spec == Init /\ [][Next]_vars

\* one ModelRegistry object
NextOne == NextOn({1}, MaxOpsOne)

SpecOne == Init /\ [][NextOne]_vars

\* ------------------------------------------- register_model in steps
MaxOpsSave == 2    \* register_model calls that save in steps

\* register_model up to the call of _save_registry: the model_info and the
\* assignment into self.registry
SaveAssign(i, name, version, model_path, model_type, metrics, metadata, dt) ==
    /\ constructed[i]
    /\ saver.pc = "idle"
    /\ clock' = clock + dt
    /\ LET info == ModelInfo(name, version, model_path, model_type, metrics,
                             metadata, clock')
           model_key == ModelKey(name, version)
       IN /\ registry' = [registry EXCEPT ![i] = DictSet(registry[i], model_key, info)]
          /\ saver' = [pc |-> "assigned", inst |-> i, key |-> model_key,
                       before |-> LoadRegistry(disk)]
          /\ last' = [NoCall EXCEPT !.op = "register_model", !.inst = i,
                        !.name = name, !.version = version, !.metrics = metrics,
                        !.metadata = metadata, !.model_path = model_path,
                        !.model_type = model_type, !.now = clock',
                        !.prev = DictGet(registry[i], model_key)]
    /\ nops' = nops + 1
    /\ UNCHANGED <<disk, constructed, returned, torn>>
    /\ UNCHANGED hvars

\* _save_registry: open(self.registry_path, 'w') creates or truncates the file
SaveOpen ==
    /\ saver.pc = "assigned"
    /\ disk' = [exists |-> TRUE, doc |-> <<>>]
    /\ torn' = "empty"
    /\ saver' = [saver EXCEPT !.pc = "opened"]
    /\ UNCHANGED <<constructed, registry, clock, nops, returned, last>>
    /\ UNCHANGED hvars

\* _save_registry: json.dump has written part of the document and the buffer
\* of f was flushed
SaveFlush ==
    /\ saver.pc = "opened"
    /\ torn' = "prefix"
    /\ saver' = [saver EXCEPT !.pc = "writing"]
    /\ UNCHANGED <<disk, constructed, registry, clock, nops, returned, last>>
    /\ UNCHANGED hvars

\* _save_registry: json.dump is done and the with block closes f;
\* register_model returns
SaveClose ==
    /\ saver.pc \in {"opened", "writing"}
    /\ disk' = [exists |-> TRUE, doc |-> JsonDump(registry[saver.inst])]
    /\ torn' = "whole"
    /\ returned' = returned \cup {saver.key}
    /\ saver' = Idle
    /\ UNCHANGED <<constructed, registry, clock, nops, last>>
    /\ UNCHANGED hvars

\* register_model step by step on the objects that exist, while other
\* ModelRegistry objects are constructed on the same file
NextSave ==
    \/ /\ \E i \in Insts : Construct(i)
       /\ UNCHANGED <<svars, hvars>>
    \/ /\ nops < MaxOpsSave
       /\ \E i \in Insts, nv \in Models, p \in PathArgs, t \in TypeArgs, a \in InfoArgs,
             dt \in Elapsed :
             SaveAssign(i, nv[1], nv[2], p, t, a.metrics, a.metadata, dt)
    \/ SaveOpen
    \/ SaveFlush
    \/ SaveClose

SpecSave == Init /\ [][NextSave]_vars

\* ------------------------------------------------ save of a loaded mapping
MaxOpsStore == 2   \* mutating calls before and after the second object's save

\* _save_registry called on object i as it stands
SaveRegistry(i) ==
    /\ constructed[i]
    /\ disk' = [exists |-> TRUE, doc |-> JsonDump(registry[i])]
    /\ last' = [NoCall EXCEPT !.op = "_save_registry", !.inst = i,
                  !.listing = registry[i]]
    /\ UNCHANGED <<constructed, registry, clock, nops, returned>>
    /\ UNCHANGED <<svars, hvars>>

\* object 1 is used as in NextOne; object 2 loads the document and saves it
NextStore ==
    \/ NextOn({1}, MaxOpsStore)
    \/ /\ Construct(2)
       /\ UNCHANGED <<svars, hvars>>
    \/ SaveRegistry(2)

SpecStore == Init /\ [][NextStore]_vars

\* ------------------------------------------------- a save that can fail
MaxOpsFail == 2    \* register_model / update_model_status calls, saves may fail

\* what the medium does to one _save_registry: the save goes through, open()
\* raises (permissions, path unreachable), or a write raises after open()
\* truncated the file (disk full) with nothing or a part of the text in it
StorageOutcomes == {"saved", "open raises", "write raises, empty",
                    "write raises, prefix"}

\* _save_registry of the mapping reg on the file d (state t) under outcome o
SaveRegistryUnder(d, t, reg, o) ==
    CASE o = "saved" ->
           [disk |-> [exists |-> TRUE, doc |-> JsonDump(reg)], torn |-> "whole",
            raised |-> "none"]
      [] o = "open raises" ->
           [disk |-> d, torn |-> t, raised |-> "OSError"]
      [] o = "write raises, empty" ->
           [disk |-> [exists |-> TRUE, doc |-> <<>>], torn |-> "empty",
            raised |-> "OSError"]
      [] o = "write raises, prefix" ->
           [disk |-> [exists |-> TRUE, doc |-> <<>>], torn |-> "prefix",
            raised |-> "OSError"]

\* ModelRegistry.register_model on a medium that may fail: the assignment of
\* line 52 is made before _save_registry is called and is not undone
RegisterModelStorage(i, name, version, model_path, model_type, metrics, metadata, dt, o) ==
    /\ constructed[i]
    /\ clock' = clock + dt
    /\ LET info == ModelInfo(name, version, model_path, model_type, metrics,
                             metadata, clock')
           model_key == ModelKey(name, version)
           reg == DictSet(registry[i], model_key, info)
           save == SaveRegistryUnder(disk, torn, reg, o)
       IN /\ registry' = [registry EXCEPT ![i] = reg]
          /\ disk' = save.disk
          /\ torn' = save.torn
          /\ last' = [NoCall EXCEPT !.op = "register_model", !.inst = i,
                        !.name = name, !.version = version, !.metrics = metrics,
                        !.metadata = metadata, !.model_path = model_path,
                        !.model_type = model_type, !.now = clock',
                        !.prev = DictGet(registry[i], model_key),
                        !.raised = save.raised]
          /\ returned' = IF save.raised = "none"
                         THEN returned \cup {model_key} ELSE returned
    /\ nops' = nops + 1
    /\ UNCHANGED <<constructed, saver>>
    /\ UNCHANGED hvars

\* ModelRegistry.update_model_status on a medium that may fail: the status is
\* assigned (line 101) before _save_registry is called; an unknown key saves
\* nothing
UpdateModelStatusStorage(i, name, version, status, o) ==
    /\ constructed[i]
    /\ LET model_key == ModelKey(name, version)
           reg == SetStatus(registry[i], model_key, status)
           save == IF DictHas(registry[i], model_key)
                   THEN SaveRegistryUnder(disk, torn, reg, o)
                   ELSE [disk |-> disk, torn |-> torn, raised |-> "none"]
       IN /\ registry' = [registry EXCEPT ![i] = reg]
          /\ disk' = save.disk
          /\ torn' = save.torn
          /\ last' = [NoCall EXCEPT !.op = "update_model_status", !.inst = i,
                        !.name = name, !.version = version, !.status = status,
                        !.prev = DictGet(registry[i], model_key),
                        !.raised = save.raised]
    /\ nops' = nops + 1
    /\ UNCHANGED <<constructed, clock, returned, saver>>
    /\ UNCHANGED hvars

\* one object whose saves may fail
NextFail ==
    \/ /\ Construct(1)
       /\ UNCHANGED <<svars, hvars>>
    \/ /\ nops < MaxOpsFail
       /\ \E nv \in Models, p \in PathArgs, t \in TypeArgs, a \in InfoArgs,
             dt \in Elapsed, o \in StorageOutcomes :
             RegisterModelStorage(1, nv[1], nv[2], p, t, a.metrics, a.metadata, dt, o)
    \/ /\ nops < MaxOpsFail
       /\ \E nv \in Models, st \in StatusArgs, o \in StorageOutcomes :
             UpdateModelStatusStorage(1, nv[1], nv[2], st, o)
    \/ /\ \E n \in Names, v \in Versions \cup {LATEST} : GetInfoCall(1, n, v)
       /\ UNCHANGED <<svars, hvars>>
    \/ /\ ListModels(1)
       /\ UNCHANGED <<svars, hvars>>

SpecFail == Init /\ [][NextFail]_vars

\* ------------------------------------------------- two versions of a name
MaxOpsTie == 4     \* register_model calls, two objects, versions of one name

\* the versions of the name "a"
TieModels == {nv \in Models : nv[1] = <<"a">>}
TieInfoArgs == {a \in InfoArgs : a.metrics = 1}

\* two objects that register the versions of one name, in either order and
\* within the same clock reading or not, and ask for the latest
NextTie ==
    \/ /\ \E i \in Insts : Construct(i)
       /\ UNCHANGED <<svars, hvars>>
    \/ /\ nops < MaxOpsTie
       /\ \E i \in Insts, nv \in TieModels, p \in PathArgs, t \in TypeArgs,
             a \in TieInfoArgs, dt \in Elapsed :
             RegisterModel(i, nv[1], nv[2], p, t, a.metrics, a.metadata, dt)
       /\ UNCHANGED <<svars, hvars>>
    \/ /\ \E i \in Insts : GetInfoCall(i, <<"a">>, LATEST)
       /\ UNCHANGED <<svars, hvars>>

SpecTie == Init /\ [][NextTie]_vars

\* ------------------------------------------------------------- load_model
MaxOpsLoad == 2    \* register_model calls before load_model

\* model_path values: a torch file, a pickle file, another format
LoadPaths == {"a.pth", "b.pkl", "c.bin"}
\* what the file at model_path holds
Contents == {"model", "garbage"}
\* the metrics and metadata of the records load_model looks up
LoadInfoArgs == {a \in InfoArgs : a.metrics = 1}

\* Path(...).suffix
Suffix(path) == CASE path = "a.pth" -> ".pth" [] path = "b.pkl" -> ".pkl"
                  [] OTHER -> ".bin"

\* LoadModelOutcome without the exists() test: the loader is handed the path
LoadModelOutcomeUnchecked(info, present, content) ==
    IF info = <<>>
    THEN [raised |-> "ValueError: not found in registry", ret |-> <<>>]
    ELSE LET model_path == info[1].model_path
         IN IF Suffix(model_path) \notin {".pth", ".pkl"}
            THEN [raised |-> "ValueError: unsupported model format", ret |-> <<>>]
            ELSE [raised |-> "none",
                  ret |-> <<[kind |-> "model", path |-> model_path,
                             loader |-> Suffix(model_path)]>>]

\* load_model after its call of get_model_info returned info: what it raises
\* and returns when a file is or is not present at model_path
LoadModelOutcome(info, present, content) ==
    IF info = <<>>
    THEN [raised |-> "ValueError: not found in registry", ret |-> <<>>]
    ELSE LET model_path == info[1].model_path
         IN IF ~present
            THEN [raised |-> "FileNotFoundError", ret |-> <<>>]
            ELSE IF Suffix(model_path) \notin {".pth", ".pkl"}
            THEN [raised |-> "ValueError: unsupported model format", ret |-> <<>>]
            ELSE IF content # "model"
            THEN [raised |-> "loader error", ret |-> <<>>]
            ELSE [raised |-> "none",
                  ret |-> <<[kind |-> "model", path |-> model_path,
                             loader |-> Suffix(model_path)]>>]

\* ModelRegistry.load_model
LoadModel(i, name, version, present, content) ==
    /\ constructed[i]
    /\ LET out == LoadModelOutcome(GetModelInfo(registry[i], name, version),
                                   present, content)
       IN last' = [NoCall EXCEPT !.op = "load_model", !.inst = i, !.name = name,
                     !.version = version, !.present = present, !.content = content,
                     !.ret = out.ret, !.raised = out.raised]
    /\ UNCHANGED <<disk, constructed, registry, clock, nops, returned>>
    /\ UNCHANGED <<svars, hvars>>

\* one object: records with the three kinds of model_path, then load_model
NextLoad ==
    \/ /\ Construct(1)
       /\ UNCHANGED <<svars, hvars>>
    \/ /\ nops < MaxOpsLoad
       /\ \E nv \in Models, p \in LoadPaths, t \in TypeArgs, a \in LoadInfoArgs,
             dt \in Elapsed :
             RegisterModel(1, nv[1], nv[2], p, t, a.metrics, a.metadata, dt)
       /\ UNCHANGED <<svars, hvars>>
    \/ \E n \in Names, v \in Versions \cup {LATEST}, present \in BOOLEAN,
          content \in Contents : LoadModel(1, n, v, present, content)

SpecLoad == Init /\ [][NextLoad]_vars

\* ------------------------------------------------- health_check.py
max_retries == 30
retry_delay == 2

\* the keys of self.checks
Checks == {"api", "database", "redis", "models"}

\* sys.argv[1:] of a run of the script
Argvs == {<<>>, <<"api">>, <<"database">>, <<"redis">>, <<"models">>, <<"cache">>,
          <<"api", "redis">>}

\* what a call of self.checks[service_type]() does: return True, return False,
\* or raise an exception its except clause does not name
ProbeOutcomes == {"true", "false", "raise"}

Line(kind, service, index) == [kind |-> kind, service |-> service, index |-> index]

\* range(max_retries) as if it were range(max_retries + 1)
RangeHasNextOneMore(a) == a < max_retries + 1

\* for attempt in range(max_retries): the loop runs again with attempt = a
RangeHasNext(a) == a < max_retries

\* ProbeEffect with the call wrapped in try/except Exception: a raise is a failure
ProbeEffectSwallow(outcome) ==
    CASE outcome = "true" -> "pass"
      [] outcome = "false" -> "retry"
      [] outcome = "raise" -> "retry"

\* what run_health_check does with the outcome of the check it called
ProbeEffect(outcome) ==
    CASE outcome = "true" -> "pass"
      [] outcome = "false" -> "retry"
      [] outcome = "raise" -> "propagate"

\* ExitCode that reports success whenever run_health_check returned
ExitCodeReturned(ret) == IF ret = "raised" THEN 1 ELSE 0

\* the exit status: sys.exit(0), sys.exit(1), or 1 for an uncaught exception
ExitCode(ret) == IF ret = "True" THEN 0 ELSE 1

\* __main__ up to the first check: the usage test, then run_health_check up
\* to its loop
Main(args) ==
    /\ h_pc = "start"
    /\ IF Len(args) # 1
       THEN /\ stdout' = <<Line("usage", "", 0), Line("service types", "", 0)>>
            /\ exit_code' = 1
            /\ h_pc' = "exited"
            /\ UNCHANGED <<service_type, h_ret>>
       ELSE /\ service_type' = args[1]
            /\ IF args[1] \notin Checks
               THEN /\ stdout' = <<Line("unknown", args[1], 0)>>
                    /\ h_ret' = "False"
                    /\ h_pc' = "returned"
               ELSE /\ h_pc' = IF RangeHasNext(0) THEN "probing" ELSE "returned"
                    /\ h_ret' = IF RangeHasNext(0) THEN h_ret ELSE "False"
                    /\ UNCHANGED stdout
            /\ UNCHANGED exit_code
    /\ UNCHANGED <<attempt, probes, sleeps>>
    /\ UNCHANGED <<rvars, svars>>

\* one turn of the loop up to the sleep: the call of the check and the print
RunCheck(outcome) ==
    /\ h_pc = "probing"
    /\ probes' = Append(probes, outcome)
    /\ LET effect == ProbeEffect(outcome)
       IN CASE effect = "pass" ->
                 /\ stdout' = Append(stdout, Line("passed", service_type, 0))
                 /\ h_ret' = "True"
                 /\ h_pc' = "returned"
            [] effect = "retry" ->
                 /\ stdout' = Append(stdout, Line("failed", service_type, attempt + 1))
                 /\ h_pc' = "sleeping"
                 /\ UNCHANGED h_ret
            [] effect = "propagate" ->
                 /\ h_ret' = "raised"
                 /\ h_pc' = "returned"
                 /\ UNCHANGED stdout
    /\ UNCHANGED <<service_type, attempt, sleeps, exit_code>>
    /\ UNCHANGED <<rvars, svars>>

\* Sleep with line 78 missing: the loop ends and the function returns None
SleepReturnsNone ==
    /\ h_pc = "sleeping"
    /\ sleeps' = sleeps + 1
    /\ IF RangeHasNext(attempt + 1)
       THEN /\ attempt' = attempt + 1
            /\ h_pc' = "probing"
       ELSE /\ h_pc' = "returned"
            /\ UNCHANGED attempt
    /\ UNCHANGED <<service_type, probes, stdout, exit_code, h_ret>>
    /\ UNCHANGED <<rvars, svars>>

\* time.sleep(retry_delay), then the next turn of the loop or return False
Sleep ==
    /\ h_pc = "sleeping"
    /\ sleeps' = sleeps + 1
    /\ IF RangeHasNext(attempt + 1)
       THEN /\ attempt' = attempt + 1
            /\ h_pc' = "probing"
            /\ UNCHANGED h_ret
       ELSE /\ h_ret' = "False"
            /\ h_pc' = "returned"
            /\ UNCHANGED attempt
    /\ UNCHANGED <<service_type, probes, stdout, exit_code>>
    /\ UNCHANGED <<rvars, svars>>

\* __main__ after run_health_check
Exit ==
    /\ h_pc = "returned"
    /\ exit_code' = ExitCode(h_ret)
    /\ stdout' = IF h_ret = "False"
                 THEN Append(stdout, Line("verdict failed", service_type, 0))
                 ELSE stdout
    /\ h_pc' = "exited"
    /\ UNCHANGED <<service_type, attempt, probes, sleeps, h_ret>>
    /\ UNCHANGED <<rvars, svars>>

NextHealth ==
    \/ \E args \in Argvs : Main(args)
    \/ \E outcome \in ProbeOutcomes : RunCheck(outcome)
    \/ Sleep
    \/ Exit

SpecHealth == Init /\ [][NextHealth]_vars

\* the script is one sequential process that keeps running: every check
\* returns or raises within its timeout (lines 25, 38, 48) and time.sleep
\* returns after retry_delay seconds, so a step that can be taken is taken
SpecHealthLive == SpecHealth /\ WF_vars(NextHealth)

\* ------------------------------------------------------------------ claims
LastKey == ModelKey(last.name, last.version)

\* C1: after register_model(n, v, ...) on a pair that is already registered,
\* get_model_info(n, v) on that object returns exactly the record of this call:
\* its metrics, metadata, model_path, model_type, status active and the
\* timestamp of this call; the call raises nothing.
C1_ReRegisterOverwrites ==
    last.op = "register_model" =>
        /\ last.raised = "none"
        /\ GetModelInfo(registry[last.inst], last.name, last.version) =
             <<[name |-> last.name, version |-> last.version,
                model_path |-> last.model_path, model_type |-> last.model_type,
                metrics |-> last.metrics,
                metadata |-> IF last.metadata = "None" THEN "empty" ELSE last.metadata,
                registered_at |-> IsoFormat(last.now), status |-> "active"]>>

\* a second register_model of the same pair, with other metrics and a later time
C1_Witness ==
    /\ last.op = "register_model"
    /\ last.prev # <<>>
    /\ last.prev[1].name = last.name
    /\ last.prev[1].version = last.version
    /\ last.prev[1].metrics # last.metrics
    /\ last.prev[1].registered_at # IsoFormat(last.now)
    /\ GetModelInfo(registry[last.inst], last.name, last.version)[1].metrics = last.metrics

\* C2: get_model_info(n, "latest") returns None iff no record has name n, and
\* otherwise a record named n whose registered_at is not below that of any
\* other record named n.
C2_LatestIsOfName ==
    (last.op = "get_model_info" /\ last.version = LATEST) =>
        LET d == registry[last.inst]
            named == {j \in DOMAIN d : d[j].v.name = last.name}
        IN IF named = {} THEN last.ret = <<>>
           ELSE /\ last.ret # <<>>
                /\ last.ret[1].name = last.name
                /\ \A j \in named :
                      ~StrLess(last.ret[1].registered_at, d[j].v.registered_at)

\* C3: a read returns what the persisted document holds at the time of the
\* read: get_model_info of a key in the document returns that record, and
\* list_models returns the whole document.
C3_ReadsSeeStore ==
    /\ (last.op = "get_model_info" /\ last.version # LATEST
        /\ DictHas(LoadRegistry(disk), LastKey)) =>
           /\ last.ret # <<>>
           /\ <<JsonInfo(last.ret[1])>> = DictGet(LoadRegistry(disk), LastKey)
    /\ last.op = "list_models" => JsonDump(last.listing) = LoadRegistry(disk)

\* C4: the document a mutating call saves is the document persisted just
\* before the call with the one requested change applied.
C4_ReadModifyWrite ==
    [][nops' # nops =>
         LET c == last'
             key == ModelKey(c.name, c.version)
             before == LoadRegistry(disk)
         IN IF c.op = "register_model"
            THEN LoadRegistry(disk') =
                   JsonDump(DictSet(before, key,
                       ModelInfo(c.name, c.version, c.model_path, c.model_type,
                                 c.metrics, c.metadata, c.now)))
            ELSE LoadRegistry(disk') = SetStatus(before, key, c.status)]_vars

\* C5: once register_model calls on distinct keys have returned, one after the
\* other, the persisted document contains every one of their keys.
C5_NoLostUpdate == returned \subseteq DictKeys(LoadRegistry(disk))

\* C6: update_model_status on a key that has no record ends in a NotFound
\* outcome, which a successful update (returns None, raises nothing) does not.
C6_UpdateUnknownIsNotFound ==
    (last.op = "update_model_status" /\ last.prev = <<>>) => last.raised = "NotFound"

\* C7: update_model_status on a key that has no record changes neither the
\* object's mapping nor the persisted document, and get_model_info of an
\* absent exact key returns None and changes nothing.
C7_UnknownKeyNoEffect ==
    [][/\ (/\ last'.op = "update_model_status"
           /\ nops' # nops
           /\ ~DictHas(registry[last'.inst], ModelKey(last'.name, last'.version)))
          => (registry' = registry /\ disk' = disk)
       /\ (/\ last'.op = "get_model_info"
           /\ last'.version # LATEST
           /\ ~DictHas(registry[last'.inst], ModelKey(last'.name, last'.version)))
          => (last'.ret = <<>> /\ registry' = registry /\ disk' = disk)]_vars

\* an update of an unknown key on an object that holds other records
C7_Witness ==
    /\ last.op = "update_model_status"
    /\ last.prev = <<>>
    /\ registry[last.inst] # <<>>
    /\ disk.exists
    /\ ~DictHas(registry[last.inst], LastKey)

\* C8: update_model_status of a registered key with a status outside {active,
\* deprecated, archived} fails with InvalidArgument and leaves the stored
\* status as it was, so every stored record has one of these three statuses.
C8_StatusRestricted ==
    /\ (last.op = "update_model_status" /\ last.prev # <<>>
        /\ last.status \notin ValidStatus)
          => /\ last.raised = "InvalidArgument"
             /\ DictGet(registry[last.inst], LastKey) = last.prev
    /\ \A j \in DOMAIN LoadRegistry(disk) :
          LoadRegistry(disk)[j].v.status \in ValidStatus
    /\ \A i \in Insts : \A j \in DOMAIN registry[i] :
          registry[i][j].v.status \in ValidStatus

\* C9: a successful update_model_status changes only the status field of the
\* record at its key, in the object's mapping and in the persisted document:
\* the keys and their order, the other fields of that record and every other
\* record stay as they were, and get_model_info(n, "latest") selects the same
\* (name, version) as before for every n.
C9_UpdateChangesOnlyStatus ==
    [][(/\ last'.op = "update_model_status"
        /\ nops' # nops
        /\ DictHas(registry[last'.inst], ModelKey(last'.name, last'.version)))
       => LET i == last'.inst
              key == ModelKey(last'.name, last'.version)
              OnlyStatus(old, new) ==
                  /\ Len(new) = Len(old)
                  /\ \A j \in DOMAIN old :
                        /\ new[j].k = old[j].k
                        /\ new[j].v = IF old[j].k = key
                                      THEN [old[j].v EXCEPT !.status = last'.status]
                                      ELSE old[j].v
          IN /\ OnlyStatus(registry[i], registry'[i])
             /\ OnlyStatus(LoadRegistry(disk), LoadRegistry(disk'))
             /\ \A n \in Names :
                   LET a == GetModelInfo(registry[i], n, LATEST)
                       b == GetModelInfo(registry'[i], n, LATEST)
                   IN /\ (a = <<>>) <=> (b = <<>>)
                      /\ a # <<>> => (a[1].name = b[1].name /\ a[1].version = b[1].version)
      ]_vars

\* a status change of one record of a mapping that holds another record too
C9_Witness ==
    /\ last.op = "update_model_status"
    /\ last.prev # <<>>
    /\ last.prev[1].status # last.status
    /\ Len(registry[last.inst]) >= 2
    /\ DictGet(registry[last.inst], LastKey)[1].status = last.status
    /\ DictGet(LoadRegistry(disk), LastKey)[1].status = last.status

\* C10: no step removes a key from the persisted document.
C10_KeysNeverShrink ==
    [][DictKeys(LoadRegistry(disk)) \subseteq DictKeys(LoadRegistry(disk'))]_vars

\* C17: (name, version) is the identity of a record: an exact get_model_info(n, v)
\* that returns a record returns the one registered under the pair (n, v), also
\* when the strings contain ':'.
C17_PairIsIdentity ==
    (last.op = "get_model_info" /\ last.version # LATEST /\ last.ret # <<>>) =>
        (last.ret[1].name = last.name /\ last.ret[1].version = last.version)

\* run_health_check has ended for a service type it knows
HealthDone == h_pc \in {"returned", "exited"} /\ service_type \in Checks

AllFalse(n) == \A j \in 1..n : probes[j] = "false"

\* C12: with max_retries attempts, a check that always returns False is called
\* exactly max_retries times and run_health_check returns False; a check that
\* returns False k-1 times and then True is called exactly k times and
\* run_health_check returns True; no check is called after one returned True.
C12_RetryBound ==
    /\ \A j \in 1..Len(probes) : probes[j] = "true" => j = Len(probes)
    /\ Len(probes) <= max_retries
    /\ (HealthDone /\ h_ret = "False") =>
          (Len(probes) = max_retries /\ AllFalse(max_retries))
    /\ (HealthDone /\ h_ret = "True") =>
          /\ Len(probes) \in 1..max_retries
          /\ probes[Len(probes)] = "true"
          /\ AllFalse(Len(probes) - 1)
    /\ (HealthDone /\ Len(probes) = max_retries /\ AllFalse(max_retries)) =>
          h_ret = "False"
    /\ (HealthDone /\ probes # <<>> /\ probes[Len(probes)] = "true") => h_ret = "True"

\* a run that used up every attempt
C12_Witness ==
    /\ h_pc = "exited"
    /\ service_type \in Checks
    /\ h_ret = "False"
    /\ Len(probes) = max_retries

\* C13: a run that ends in Failed has slept max_retries - 1 times, and a run
\* that passes on attempt k has slept k - 1 times.
C13_WaitsOnlyBetweenAttempts ==
    HealthDone =>
        /\ h_ret = "False" => sleeps = max_retries - 1
        /\ h_ret = "False" => sleeps * retry_delay = (max_retries - 1) * retry_delay
        /\ h_ret = "True" => sleeps = Len(probes) - 1

\* C14: a check that raises ends run_health_check at once: it is the last
\* call, no sleep follows it, the exception leaves run_health_check (which
\* neither returns False nor prints the failure verdict).
C14_RaiseNotRetried ==
    \A j \in 1..Len(probes) :
        probes[j] = "raise" =>
            /\ j = Len(probes)
            /\ sleeps = j - 1
            /\ h_pc \in {"returned", "exited"}
            /\ h_ret = "raised"
            /\ \A l \in 1..Len(stdout) : stdout[l].kind # "verdict failed"

\* the second call of the check raised
C14_Witness ==
    /\ h_pc = "exited"
    /\ Len(probes) = 2
    /\ probes[2] = "raise"
    /\ h_ret = "raised"

\* C15: the script exits 0 exactly when run_health_check returned True, and 1
\* when it returned False or the service type is unknown; for an unknown
\* service type no check is called and nothing sleeps.
C15_ExitCode ==
    /\ h_pc = "exited" =>
          /\ exit_code \in {0, 1}
          /\ exit_code = 0 <=> h_ret = "True"
          /\ h_ret = "False" => exit_code = 1
          /\ service_type \notin Checks => exit_code = 1
    /\ service_type \notin Checks => (probes = <<>> /\ sleeps = 0)

\* the script has ended for a service type that is not in self.checks
C15_Witness ==
    /\ h_pc = "exited"
    /\ service_type = "cache"
    /\ h_ret = "False"
    /\ exit_code = 1

\* C16: every attempt, the passing one included, has a printed line with the
\* service type and the attempt's 1-based index, before the final verdict.
C16_LinePerAttempt ==
    (HealthDone /\ h_ret \in {"True", "False"}) =>
        \A j \in 1..Len(probes) :
            \E l \in 1..Len(stdout) :
                /\ stdout[l].service = service_type
                /\ stdout[l].index = j
                /\ stdout[l].kind # "verdict failed"

\* C11: a load that runs while a save is under way gets the whole document
\* from before the save or the whole document from after it, never an empty
\* or partly written one.
C11_SaveIsAtomic ==
    (last.op = "__init__" /\ saver.pc \in {"opened", "writing"}) =>
        /\ last.raised = "none"
        /\ registry[last.inst] \in {saver.before, JsonDump(registry[saver.inst])}

\* C19: while no persisted document exists, constructing an object raises
\* nothing and loads the empty mapping, and every get_model_info (exact or
\* "latest") returns None and list_models is empty.
C19_NoDocumentIsEmpty ==
    ~disk.exists =>
        /\ LoadRaises(disk, torn) = "none"
        /\ LoadRegistry(disk) = <<>>
        /\ last.op = "__init__" =>
              (last.raised = "none" /\ constructed[last.inst]
               /\ registry[last.inst] = <<>>)
        /\ last.op = "get_model_info" => last.ret = <<>>
        /\ last.op = "list_models" => last.listing = <<>>
        /\ \A i \in Insts : \A n \in Names : \A v \in Versions \cup {LATEST} :
              constructed[i] => GetModelInfo(registry[i], n, v) = <<>>

\* get_model_info(n, "latest") on an object constructed without a document
C19_Witness ==
    /\ ~disk.exists
    /\ last.op = "get_model_info"
    /\ last.version = LATEST
    /\ constructed[last.inst]
    /\ last.ret = <<>>

\* C18: _save_registry on a mapping just loaded by _load_registry leaves the
\* persisted document with the same keys, order and records, and a following
\* load returns the mapping the first load returned.
C18_SaveLoadRoundTrip ==
    [][(/\ last.op = "__init__"
        /\ last.raised = "none"
        /\ last'.op = "_save_registry"
        /\ last'.inst = last.inst)
       => /\ disk'.doc = disk.doc
          /\ LoadRegistry(disk') = LoadRegistry(disk)
          /\ LoadRegistry(disk') = registry[last.inst]
          /\ LoadRaises(disk', torn') = "none"]_vars

\* a loaded mapping of two records, one with metadata as JSON returns it, was
\* saved back
C18_Witness ==
    /\ last.op = "_save_registry"
    /\ nops = 2
    /\ Len(last.listing) = 2
    /\ \E j \in 1..2 : last.listing[j].v.metadata = "strkey"
    /\ disk.doc = last.listing

\* what get_model_info returns for the arguments of the last call
LastInfo == GetModelInfo(registry[last.inst], last.name, last.version)

\* C20 as claimed: load_model returns exactly the model_path of the record
\* get_model_info returns, ends in not-found exactly when get_model_info
\* returns None, and never fails because of what the path is.
C20_ResolveReturnsPath ==
    last.op = "load_model" =>
        /\ (LastInfo = <<>>) <=> (last.raised = "ValueError: not found in registry")
        /\ LastInfo # <<>> =>
              /\ last.raised = "none"
              /\ last.ret = <<[kind |-> "path", path |-> LastInfo[1].model_path,
                               loader |-> ""]>>

\* C20 amended: load_model raises the not-found ValueError exactly when
\* get_model_info returns None; otherwise it works on the model_path of the
\* record get_model_info returns and does validate it: FileNotFoundError when
\* no file is there, ValueError when the suffix is neither .pth nor .pkl, the
\* loader's error when the file does not deserialize, and else it returns the
\* object loaded from that path, not the path.
C20_LoadModelFollowsGetInfo ==
    last.op = "load_model" =>
        /\ (LastInfo = <<>>) <=> (last.raised = "ValueError: not found in registry")
        /\ LastInfo # <<>> =>
              LET model_path == LastInfo[1].model_path
                  supported == Suffix(model_path) \in {".pth", ".pkl"}
              IN /\ ~last.present <=> last.raised = "FileNotFoundError"
                 /\ (last.present /\ ~supported)
                       <=> last.raised = "ValueError: unsupported model format"
                 /\ (last.present /\ supported /\ last.content # "model")
                       <=> last.raised = "loader error"
                 /\ (last.present /\ supported /\ last.content = "model")
                       <=> last.raised = "none"
                 /\ last.raised = "none" =>
                       (/\ Len(last.ret) = 1
                        /\ last.ret[1].kind = "model"
                        /\ last.ret[1].path = model_path)
                 /\ last.raised # "none" => last.ret = <<>>

\* load_model(n, "latest") with two versions registered loaded the later one
C20_Witness ==
    /\ last.op = "load_model"
    /\ last.version = LATEST
    /\ last.raised = "none"
    /\ Len(registry[last.inst]) = 2
    /\ registry[last.inst][1].v.model_path # registry[last.inst][2].v.model_path
    /\ StrLess(registry[last.inst][1].v.registered_at,
               registry[last.inst][2].v.registered_at)
    /\ last.ret[1].path = registry[last.inst][2].v.model_path

\* the states of the retry loop: Probing while the loop runs, Passed and
\* Failed when run_health_check has returned True or False
Probing == h_pc \in {"probing", "sleeping"}
Passed == h_pc \in {"returned", "exited"} /\ h_ret = "True"
Failed == h_pc \in {"returned", "exited"} /\ h_ret = "False"

\* C21: a run whose checks all return a boolean leaves Probing for Passed or
\* for Failed (never both, and the verdict stays) after at most max_retries
\* calls of the check; the k-th call starts only when k-1 calls have returned,
\* one call per step; after Passed or Failed the check is not called again.
C21_Terminates ==
    /\ (Probing /\ [](h_ret # "raised")) ~> (Passed \/ Failed)
    /\ [](~(Passed /\ Failed) /\ Len(probes) <= max_retries)
    /\ [][(Passed \/ Failed) => (h_ret' = h_ret /\ probes' = probes)]_vars
    /\ [][probes' # probes =>
            /\ Probing
            /\ Len(probes) = attempt
            /\ Len(probes') = Len(probes) + 1]_vars

\* a run that passed on its last attempt and has exited
C21_Witness ==
    /\ h_pc = "exited"
    /\ Passed
    /\ Len(probes) = max_retries
    /\ AllFalse(max_retries - 1)
    /\ sleeps = max_retries - 1

\* the records of a mapping as a set: keys with their field values
Records(d) == {d[j] : j \in DOMAIN d}

\* C22: get_model_info(n, "latest") returns the same record on every registry
\* that holds the same set of records as the one it was called on, whatever
\* the order in which the records were registered.
C22_TieIndependentOfOrder ==
    (last.op = "get_model_info" /\ last.version = LATEST) =>
        \A j \in Insts :
            (constructed[j] /\ Records(registry[j]) = Records(registry[last.inst]))
                => GetModelInfo(registry[j], last.name, LATEST) = last.ret

\* C23: a register_model or update_model_status call whose save raises
\* leaves the file as it was before the call and leaves the object's mapping
\* as it was, so that later get_model_info and list_models calls on the
\* object do not return the change.
C23_FailedSaveNoEffect ==
    [][(/\ last'.op \in {"register_model", "update_model_status"}
        /\ last'.raised = "OSError")
          => (disk' = disk /\ torn' = torn /\ registry' = registry)]_vars
====
